---------------------------- MODULE Spec2Model ----------------------------
(***************************************************************************)
(* Model of src/app.py: a Flask application that receives signed Slack     *)
(* callbacks (events, interactivity, slash commands) and two direct JSON   *)
(* endpoints, logs interactions to a SQLite corpus, runs "lenses" on text  *)
(* and delivers the result with ephemeral messages, either inside the      *)
(* request or from a detached thread.                                      *)
(*                                                                         *)
(* Text values (message text, pasted context, generated markdown) are      *)
(* sequences of one-character strings, so that str.strip, str.lower,       *)
(* str.split, the "in" substring test, slicing and the regular expressions *)
(* of _normalize_headers are computed as Python computes them.  Characters *)
(* outside ASCII and control characters are written by name: "<nl>",       *)
(* "<tab>", "<ellipsis>", "<emdash>", "<bullet>", "<hourglass>", ...       *)
(* Identifiers (channel ids, user ids, lens ids, action ids, callback ids) *)
(* are strings; Python's None is the string None.                          *)
(***************************************************************************)
EXTENDS Integers, Sequences, FiniteSets, TLC

\* ------------------------------------------------------------------------
\* Python string operations on character sequences
\* ------------------------------------------------------------------------

\* Python's None
None == "<None>"

\* the whitespace characters of str.split, str.strip and the regex class \s
IsSpace(c) == c \in {" ", "<nl>", "<tab>"}

\* str.lower for one character
LowerChar(c) ==
  CASE c = "A" -> "a" [] c = "B" -> "b" [] c = "C" -> "c" [] c = "D" -> "d"
    [] c = "E" -> "e" [] c = "F" -> "f" [] c = "G" -> "g" [] c = "H" -> "h"
    [] c = "I" -> "i" [] c = "J" -> "j" [] c = "K" -> "k" [] c = "L" -> "l"
    [] c = "M" -> "m" [] c = "N" -> "n" [] c = "O" -> "o" [] c = "P" -> "p"
    [] c = "Q" -> "q" [] c = "R" -> "r" [] c = "S" -> "s" [] c = "T" -> "t"
    [] c = "U" -> "u" [] c = "V" -> "v" [] c = "W" -> "w" [] c = "X" -> "x"
    [] c = "Y" -> "y" [] c = "Z" -> "z" [] OTHER -> c

\* str.lower
lower(s) == [i \in 1..Len(s) |-> LowerChar(s[i])]

\* index of the first non-whitespace character at or after i (Len(s)+1 if none)
RECURSIVE SkipSpace(_, _)
SkipSpace(s, i) ==
  IF i > Len(s) THEN i
  ELSE IF IsSpace(s[i]) THEN SkipSpace(s, i + 1) ELSE i

\* index of the last non-whitespace character at or before i (0 if none)
RECURSIVE SkipSpaceBack(_, _)
SkipSpaceBack(s, i) ==
  IF i < 1 THEN 0
  ELSE IF IsSpace(s[i]) THEN SkipSpaceBack(s, i - 1) ELSE i

\* str.strip
strip(s) == SubSeq(s, SkipSpace(s, 1), SkipSpaceBack(s, Len(s)))

\* the test "sub in s" on strings
Contains(sub, s) ==
  \E i \in 1..(Len(s) - Len(sub) + 1) : SubSeq(s, i, i + Len(sub) - 1) = sub

\* the slice s[:n]
Slice(s, n) == SubSeq(s, 1, IF Len(s) < n THEN Len(s) ELSE n)

\* index just after the word that starts at i
RECURSIVE WordEnd(_, _)
WordEnd(s, i) ==
  IF i > Len(s) THEN i
  ELSE IF IsSpace(s[i]) THEN i ELSE WordEnd(s, i + 1)

\* The indices in lo..hi at which a word starts (a non-whitespace character
\* at the start of s or after whitespace), in increasing order; the range
\* is halved so that the depth of the recursion is logarithmic.
RECURSIVE WordStarts(_, _, _)
WordStarts(s, lo, hi) ==
  IF lo > hi THEN << >>
  ELSE IF lo = hi
  THEN IF ~IsSpace(s[lo]) /\ (lo = 1 \/ IsSpace(s[lo - 1])) THEN <<lo>> ELSE << >>
  ELSE LET mid == (lo + hi) \div 2
       IN  WordStarts(s, lo, mid) \o WordStarts(s, mid + 1, hi)

\* str.split() with no argument: the whitespace-separated words
split(s) ==
  LET starts == WordStarts(s, 1, Len(s))
  IN  [k \in 1..Len(starts) |-> SubSeq(s, starts[k], WordEnd(s, starts[k]) - 1)]

\* " ".join(words[lo..hi]), the range halved as in WordStarts
RECURSIVE JoinRange(_, _, _)
JoinRange(words, lo, hi) ==
  IF lo > hi THEN << >>
  ELSE IF lo = hi THEN words[lo]
  ELSE LET mid == (lo + hi) \div 2
       IN  JoinRange(words, lo, mid) \o <<" ">> \o JoinRange(words, mid + 1, hi)

\* " ".join(words)
join(words) == JoinRange(words, 1, Len(words))

\* ------------------------------------------------------------------------
\* Response formatting: _word_cap and _normalize_headers
\* ------------------------------------------------------------------------

\* MAX_LENS_WORDS = int(os.getenv("MAX_LENS_WORDS", "160")): the default
MAX_LENS_WORDS == 160

\* _word_cap comparing with < instead of <= (a fault injected to test C13)
_word_cap_strict(md, limit) ==
  LET words == split(md)
  IN  IF Len(words) < limit THEN md
      ELSE join(SubSeq(words, 1, limit)) \o <<" ", "<ellipsis>">>

\* _word_cap(md, limit)
_word_cap(md, limit) ==
  LET words == split(md)
  IN  IF Len(words) <= limit THEN md
      ELSE join(SubSeq(words, 1, limit)) \o <<" ", "<ellipsis>">>

\* One item of a heading pattern: a literal character, an optional
\* character (x?), whitespace (\s*) or a character class ([...]).
Lit(c) == [k |-> "lit", cs |-> {c}]
Opt(c) == [k |-> "opt", cs |-> {c}]
Ws     == [k |-> "ws", cs |-> {}]
Class(cs) == [k |-> "class", cs |-> cs]

\* the literal characters of a word, as pattern items
Lits(w) == [i \in 1..Len(w) |-> Lit(w[i])]

\* re.IGNORECASE comparison of the character at s[i] with the set cs
CharIn(s, i, cs) ==
  /\ i <= Len(s)
  /\ \E c \in cs : LowerChar(c) = LowerChar(s[i])

\* Backtracking match of the pattern items p (from item n) on s at index i:
\* the index just after the match, or 0 when there is none.  x? and \s* are
\* greedy: the longest choice is tried first.
RECURSIVE MatchItems(_, _, _, _)
RECURSIVE MatchWs(_, _, _, _, _)
MatchItems(p, n, s, i) ==
  IF n > Len(p) THEN i
  ELSE LET it == p[n]
       IN  CASE it.k = "lit" ->
                  IF CharIn(s, i, it.cs) THEN MatchItems(p, n + 1, s, i + 1) ELSE 0
             [] it.k = "class" ->
                  IF CharIn(s, i, it.cs) THEN MatchItems(p, n + 1, s, i + 1) ELSE 0
             [] it.k = "opt" ->
                  LET with == IF CharIn(s, i, it.cs)
                              THEN MatchItems(p, n + 1, s, i + 1) ELSE 0
                  IN  IF with # 0 THEN with ELSE MatchItems(p, n + 1, s, i)
             [] it.k = "ws" ->
                  MatchWs(p, n, s, i, SkipSpace(s, i))

\* \s* having consumed s[i..j-1]: try the rest, then give one character back
MatchWs(p, n, s, i, j) ==
  LET r == MatchItems(p, n + 1, s, j)
  IN  IF r # 0 THEN r
      ELSE IF j > i THEN MatchWs(p, n, s, i, j - 1) ELSE 0

\* Match of (?:^|\n) followed by the items p at index i: ^ holds only at the
\* start of the string (no re.MULTILINE); the alternatives are tried in order.
MatchAt(p, s, i) ==
  LET atStart == IF i = 1 THEN MatchItems(p, 1, s, i) ELSE 0
  IN  IF atStart # 0 THEN atStart
      ELSE IF i <= Len(s) /\ s[i] = "<nl>" THEN MatchItems(p, 1, s, i + 1)
      ELSE 0

\* the start of the leftmost match at or after index i, or 0 when there is none
NextMatch(p, s, i) ==
  LET starts == {j \in i..Len(s) : MatchAt(p, s, j) # 0}
  IN  IF starts = {} THEN 0
      ELSE CHOOSE j \in starts : \A j2 \in starts : j <= j2

\* re.sub(pattern, repl, s) from index i: the leftmost non-overlapping
\* matches are replaced, the text between them is kept
RECURSIVE SubFrom(_, _, _, _)
SubFrom(p, repl, s, i) ==
  LET j == NextMatch(p, s, i)
  IN  IF j = 0 THEN SubSeq(s, i, Len(s))
      ELSE SubSeq(s, i, j - 1) \o repl \o SubFrom(p, repl, s, MatchAt(p, s, j))

re_sub(p, repl, s) == SubFrom(p, repl, s, 1)

\* the labels of the four sections, in the order of the dict
L_Verdict == <<"V","e","r","d","i","c","t">>
L_Payback == <<"P","a","y","b","a","c","k">>
L_KeyPoints == <<"K","e","y"," ","P","o","i","n","t","s">>
L_Risks == <<"R","i","s","k","s">>
L_Mitigations == <<"M","i","t","i","g","a","t","i","o","n","s">>
L_RisksMitigations == L_Risks \o <<" ","&"," ">> \o L_Mitigations

\* the separator class [:<emdash>-]
Separators == {":", "<emdash>", "-"}

\* \*?<label>\*?\s*[:<emdash>-] around the items of a label
HeadingPattern(labelItems) ==
  <<Opt("*")>> \o labelItems \o <<Opt("*"), Ws, Class(Separators)>>

\* sections: label and pattern, in insertion order
sections ==
  << [label |-> L_Verdict, pat |-> HeadingPattern(Lits(L_Verdict))],
     [label |-> L_Payback, pat |-> HeadingPattern(Lits(L_Payback))],
     [label |-> L_KeyPoints, pat |-> HeadingPattern(Lits(L_KeyPoints))],
     [label |-> L_RisksMitigations,
      pat |-> HeadingPattern(Lits(L_Risks) \o <<Ws, Lit("&"), Ws>> \o Lits(L_Mitigations))] >>

\* the replacement: newline, *label*, space, em dash
Canonical(label) == <<"<nl>", "*">> \o label \o <<"*", " ", "<emdash>">>

\* the loop of _normalize_headers over sections n..4
RECURSIVE NormalizeFrom(_, _)
NormalizeFrom(out, n) ==
  IF n > Len(sections) THEN out
  ELSE NormalizeFrom(re_sub(sections[n].pat, Canonical(sections[n].label), out), n + 1)

\* _normalize_headers(md)
_normalize_headers(md) == strip(NormalizeFrom(md, 1))

\* ------------------------------------------------------------------------
\* String literals of the program and the texts the model feeds it
\* ------------------------------------------------------------------------

\* The string literals of the program, each a sequence of characters, with
\* the line of its first occurrence.
Text ==
  [\* src/app.py:172
   PICKER |->
     <<"W","h","i","c","h"," ","l","e","n","s"," ","d","o"," ","y","o","u"," ","w","a","n",
     "t"," ","t","o"," ","a","p","p","l","y","?">>,
   \* src/app.py:211
   picker_text |->
     <<"w","h","i","c","h"," ","l","e","n","s"," ","d","o"," ","y","o","u"," ","w","a","n",
     "t"," ","t","o"," ","a","p","p","l","y">>,
   \* src/app.py:120
   HINT |->
     <<"T","r","y"," ","<bt>","/","l","e","n","s","<bt>"," ","t","o"," ","p","i","c","k"," ",
     "a"," ","l","e","n","s",","," ","o","r"," ","<bt>","/","d","e","c","i","d","e"," ","<",
     "p","r","o","m","p","t",">","<bt>"," ","f","o","r"," ","a"," ","d","e","c","i","s","i",
     "o","n"," ","b","r","i","e","f",".">>,
   \* src/app.py:198
   POSTED |->
     <<"P","o","s","t","e","d"," ","t","o"," ","c","h","a","n","n","e","l"," ","<check>">>,
   \* src/app.py:197
   LENS_ANALYSIS |->
     <<"L","e","n","s"," ","A","n","a","l","y","s","i","s">>,
   \* src/app.py:304
   PICK_BELOW |->
     <<"P","i","c","k"," ","a"," ","l","e","n","s"," ","b","e","l","o","w"," ","<down>",
     "<vs16>">>,
   \* src/app.py:350
   OPENING |->
     <<"O","p","e","n","i","n","g"," ","d","e","c","i","s","i","o","n"," ","m","o","d","a",
     "l","<ellipsis>">>,
   \* src/app.py:415
   CK_cfo_skeptic |->
     <<"C","F","O"," ","S","k","e","p","t","i","c"," ","c","h","e","c","k","l","i","s","t",
     ":","<nl>","<bullet>"," ","P","a","y","b","a","c","k"," ","<"," ","1","2"," ","m","o",
     "n","t","h","s","?","<nl>","<bullet>"," ","C","a","s","h"," ","v","s"," ","E","B","I",
     "T","D","A","?","<nl>","<bullet>"," ","S","e","n","s","i","t","i","v","i","t","y"," ",
     "t","o"," ","a","c","c","u","r","a","c","y"," ","d","e","l","t","a","s","?","<nl>",
     "<bullet>"," ","H","i","d","d","e","n"," ","c","o","s","t","s"," ","(","s","e","r","v",
     "i","c","e","s","/","d","a","t","a","/","c","h","a","n","g","e"," ","m","g","m","t",")",
     "?">>,
   \* src/app.py:416
   CK_builder_ceo |->
     <<"B","u","i","l","d","e","r"," ","C","E","O"," ","l","e","n","s",":","<nl>","<bullet>",
     " ","S","h","i","p"," ","a"," ","t","h","i","n"," ","s","l","i","c","e"," ","t","h","i",
     "s"," ","w","e","e","k",".","<nl>","<bullet>"," ","W","h","a","t"," ","b","e","c","o",
     "m","e","s"," ","f","a","s","t","e","r","?","<nl>","<bullet>"," ","D","e","l","e","t",
     "e"," ","w","o","r","k",","," ","d","o","n","<rsquo>","t"," ","a","d","d"," ","i","t",
     ".","<nl>","<bullet>"," ","9","0","-","d","a","y"," ","c","o","m","p","o","u","n","d",
     "i","n","g","?">>,
   \* src/app.py:417
   CK_scaler |->
     <<"S","c","a","l","e","r"," ","l","e","n","s",":","<nl>","<bullet>"," ","R","e","p","e",
     "a","t","a","b","l","e"," ","p","l","a","y","b","o","o","k","?","<nl>","<bullet>"," ",
     "U","n","i","t"," ","e","c","o","n"," ","a","t"," ","1","0","<times>"," ","v","o","l",
     "u","m","e","?","<nl>","<bullet>"," ","R","u","n","b","o","o","k","s"," ","+"," ","g",
     "u","a","r","d","r","a","i","l","s","?">>,
   \* src/app.py:418
   CK_challenger |->
     <<"C","h","a","l","l","e","n","g","e","r"," ","l","e","n","s",":","<nl>","<bullet>"," ",
     "W","h","i","c","h"," ","s","a","c","r","e","d"," ","c","o","w"," ","t","o"," ","c","h",
     "a","l","l","e","n","g","e","?","<nl>","<bullet>"," ","I","f"," ","s","t","a","r","t",
     "i","n","g"," ","f","r","e","s","h",","," ","i","s"," ","t","h","i","s"," ","t","h","e",
     " ","p","a","t","h","?">>,
   \* src/app.py:419
   CK_operator |->
     <<"O","p","e","r","a","t","o","r"," ","l","e","n","s",":","<nl>","<bullet>"," ","W","h",
     "o"," ","o","w","n","s"," ","t","h","e"," ","K","P","I","?","<nl>","<bullet>"," ","S",
     "O","P"," ","+"," ","S","L","A","?","<nl>","<bullet>"," ","R","o","l","l","b","a","c",
     "k"," ","p","l","a","n"," ","i","f"," ","m","e","t","r","i","c","s"," ","s","l","i","p",
     "?">>,
   \* src/app.py:405
   N_cfo_skeptic |->
     <<"C","F","O"," ","S","k","e","p","t","i","c">>,
   \* src/app.py:406
   N_builder_ceo |->
     <<"B","u","i","l","d","e","r"," ","C","E","O">>,
   \* src/app.py:407
   N_scaler |->
     <<"S","c","a","l","e","r">>,
   \* src/app.py:408
   N_challenger |->
     <<"C","h","a","l","l","e","n","g","e","r">>,
   \* src/app.py:409
   N_operator |->
     <<"O","p","e","r","a","t","o","r">>,
   \* src/app.py:194
   A_post_lens |->
     <<"p","o","s","t","_","l","e","n","s">>,
   \* src/app.py:205
   A_lens_prefix |->
     <<"l","e","n","s","_">>,
   \* src/app.py:359
   A_lens_cfo |->
     <<"l","e","n","s","_","c","f","o">>,
   \* src/app.py:376
   A_post_brief |->
     <<"p","o","s","t","_","b","r","i","e","f">>,
   \* str(None)
   None |->
     <<"N","o","n","e">>,
   \* src/app.py:421
   LensApplied |->
     <<"L","e","n","s"," ","a","p","p","l","i","e","d",":"," ">>,
   \* src/app.py:217
   AnalysisSuffix |->
     <<" ","a","n","a","l","y","s","i","s","<ellipsis>">>,
   \* src/app.py:217
   HourglassPrefix |->
     <<"<hourglass>"," ">>,
   \* src/app.py:100
   INVALID_SIGNATURE |->
     <<"i","n","v","a","l","i","d"," ","s","i","g","n","a","t","u","r","e">>,
   \* src/app.py:352
   UnsupportedPrefix |->
     <<"U","n","s","u","p","p","o","r","t","e","d"," ","c","o","m","m","a","n","d"," ",
     "<bt>">>,
   \* src/app.py:352
   UnsupportedSuffix |->
     <<"<bt>",".">>,
   \* src/app.py:325
   DecisionBrief |->
     <<"D","e","c","i","s","i","o","n"," ","B","r","i","e","f">>,
   \* src/app.py:241
   LensTitleSuffix |->
     <<" ","L","e","n","s">>,
   \* src/app.py:141
   TestModal |->
     <<"T","e","s","t"," ","M","o","d","a","l">>,
   \* src/app.py:302
   lens_cmd |->
     <<"/","l","e","n","s">>,
   \* src/app.py:318
   decide_cmd |->
     <<"/","d","e","c","i","d","e">>,
   \* src/app.py:199
   LENS_POSTED |->
     <<"l","e","n","s"," ","a","n","a","l","y","s","i","s"," ","p","o","s","t","e","d">>,
   \* src/app.py:507
   Decision |->
     <<"D","e","c","i","s","i","o","n">>,
   \* src/app.py:513
   BriefHash |->
     <<"#"," ">>,
   \* src/app.py:513
   BriefRest |->
     <<"<nl>","<nl>","*","*","C","o","n","t","e","x","t","*","*","<nl>","<emdash>","<nl>",
     "<nl>","*","*","O","p","t","i","o","n","s","*","*","<nl>","<emdash>","<nl>","<nl>","*",
     "*","R","e","c","o","m","m","e","n","d","a","t","i","o","n","*","*","<nl>","<emdash>",
     "<nl>","<nl>","*","*","R","i","s","k","s"," ","&"," ","M","i","t","i","g","a","t","i",
     "o","n","s","*","*","<nl>","<emdash>","<nl>">>]

\* the texts the model feeds the program
Sample ==
  [\* a proposal
   PROPOSAL |->
     <<"W","e"," ","p","r","o","p","o","s","e"," ","b","u","y","i","n","g"," ","X"," ","f",
     "o","r"," ","$","5","0","k">>,
   \* a message that quotes the prompt of the picker
   REPLY_TO_PICKER |->
     <<"R","e",":"," ","W","h","i","c","h"," ","l","e","n","s"," ","d","o"," ","y","o","u",
     " ","w","a","n","t"," ","t","o"," ","a","p","p","l","y","?"," ","S","c","a","l","e",
     "r">>,
   \* whitespace only
   BLANK |->
     <<" "," ">>,
   \* a text with whitespace around it
   LAUNCH |->
     <<" ","L","a","u","n","c","h"," ","f","e","a","t","u","r","e"," ","Y","<nl>">>,
   \* a completion whose four headings vary in case, bold markers and separator
   REPLY |->
     <<" ","v","e","r","d","i","c","t",":"," ","G","o","<nl>","*","P","A","Y","B","A","C",
     "K","*"," ","-"," ","3"," ","m","o","n","t","h","s","<nl>","K","e","y"," ","P","o","i",
     "n","t","s"," ","<emdash>"," ","f","a","s","t","<nl>","r","i","s","k","s"," ","&"," ",
     "m","i","t","i","g","a","t","i","o","n","s",":"," ","n","o","n","e"," ">>,
   \* an action id that is neither post_lens nor lens_*
   A_pick |->
     <<"p","i","c","k">>,
   \* an id that is no key of LENS_NAMES
   mystery |->
     <<"m","y","s","t","e","r","y">>,
   \* a command other than /lens and /decide
   other_cmd |->
     <<"/","e","x","p","o","r","t">>,
   \* the title of a decision
   TITLE |->
     <<"B","u","y"," ","X">>,
   \* the first line of a long completion
   VERDICT_GO |->
     <<"V","e","r","d","i","c","t",":"," ","G","o">>,
   \* the rest of a heading line
   VALUE |->
     <<" ","G","o">>,
   \* a bullet
   BULLET |->
     <<"-"," ","f","a","s","t">>,
   \* a label in bold without separator
   BARE_LABEL |->
     <<"*","K","e","y"," ","P","o","i","n","t","s","*">>,
   \* a label inside a sentence
   SENTENCE |->
     <<"t","h","e"," ","v","e","r","d","i","c","t",":"," ","g","o">>,
   \* plain words
   WORDS |->
     <<"p","l","a","n"," ","B">>]
\* ------------------------------------------------------------------------
\* JSON text of private_metadata: json.dumps and json.loads
\* ------------------------------------------------------------------------

\* A JSON text is a sequence of tokens: <<"{">>, <<"}">>, <<":">>, <<",">>,
\* <<"str", s>> and <<"null">>; the empty sequence is the empty string.

\* json.dumps of a scalar: a str becomes a string token, None becomes null
JValue(v) == IF v = None THEN <<"null">> ELSE <<"str", v>>

\* json.loads of a scalar token
PyValue(tok) == IF tok = <<"null">> THEN None ELSE tok[2]

\* the members of a dict from its n-th (key, value) pair on, comma-separated
RECURSIVE DumpMembers(_, _)
DumpMembers(items, n) ==
  IF n > Len(items) THEN << >>
  ELSE (IF n > 1 THEN << <<",">> >> ELSE << >>)
       \o <<JValue(items[n][1]), <<":">>, JValue(items[n][2])>>
       \o DumpMembers(items, n + 1)

\* json.dumps(d) for a dict d given as its (key, value) pairs in insertion order
json_dumps(items) == << <<"{">> >> \o DumpMembers(items, 1) \o << <<"}">> >>

\* whether the tokens between the braces are  key : value (, key : value)*
MembersWellFormed(inner) ==
  \/ Len(inner) = 0
  \/ /\ Len(inner) % 4 = 3
     /\ \A i \in 1..Len(inner) :
        CASE i % 4 = 1 -> Len(inner[i]) = 2 /\ inner[i][1] = "str"
          [] i % 4 = 2 -> inner[i] = <<":">>
          [] i % 4 = 3 -> inner[i] \in {<<"null">>} \/ (Len(inner[i]) = 2 /\ inner[i][1] = "str")
          [] OTHER -> inner[i] = <<",">>

\* json.loads(text): [ok |-> FALSE] when it raises, else the dict as a
\* function from keys to values (for a repeated key the last member wins)
json_loads(text) ==
  IF \/ Len(text) < 2
     \/ text[1] # <<"{">>
     \/ text[Len(text)] # <<"}">>
     \/ ~MembersWellFormed(SubSeq(text, 2, Len(text) - 1))
  THEN [ok |-> FALSE, dict |-> << >>]
  ELSE LET inner == SubSeq(text, 2, Len(text) - 1)
           n == (Len(inner) + 1) \div 4
           keyOf(m) == inner[4 * m - 3][2]
           valOf(m) == PyValue(inner[4 * m - 1])
           keys == {keyOf(m) : m \in 1..n}
           last(k) == CHOOSE m \in 1..n :
                        /\ keyOf(m) = k
                        /\ \A m2 \in 1..n : keyOf(m2) = k => m2 <= m
       IN  [ok |-> TRUE, dict |-> [k \in keys |-> valOf(last(k))]]

\* dict.get(key), None when the key is absent
dict_get(d, key) == IF key \in DOMAIN d THEN d[key] ELSE None

\* ------------------------------------------------------------------------
\* Lens Engine: LENS_NAMES, _fallback_lens_text, run_lens
\* ------------------------------------------------------------------------

\* the keys of LENS_NAMES (and of the checklists and of the selection test)
LensIds == {"cfo_skeptic", "builder_ceo", "scaler", "challenger", "operator"}

\* None in a position that holds text (a text= argument that is None)
NoneText == <<"<None>">>

\* The characters of an identifier that is no key of LENS_NAMES, for the
\* places where the program uses a lens id as text.
IdText(id) ==
  CASE id = None -> NoneText
    [] id = "" -> << >>
    [] id = "mystery" -> Sample.mystery
    [] OTHER -> <<id>>

\* str(v) inside an f-string
Format(t) == IF t = NoneText THEN Text.None ELSE t

\* LENS_NAMES.get(lens, lens)
LENS_NAMES_get(lens) ==
  CASE lens = "cfo_skeptic" -> Text.N_cfo_skeptic
    [] lens = "builder_ceo" -> Text.N_builder_ceo
    [] lens = "scaler" -> Text.N_scaler
    [] lens = "challenger" -> Text.N_challenger
    [] lens = "operator" -> Text.N_operator
    [] OTHER -> IdText(lens)

\* _fallback_lens_text(lens, text)
_fallback_lens_text(lens, text) ==
  CASE lens = "cfo_skeptic" -> Text.CK_cfo_skeptic
    [] lens = "builder_ceo" -> Text.CK_builder_ceo
    [] lens = "scaler" -> Text.CK_scaler
    [] lens = "challenger" -> Text.CK_challenger
    [] lens = "operator" -> Text.CK_operator
    [] OTHER -> Text.LensApplied \o Format(IdText(lens))

\* A value that is not a str in a position that holds text: the int of a
\* JSON number (POST /api/lens with {"text": 123}).
IntValue == <<"<int>">>

\* whether t is a str, so that t.strip() can be called
IsStr(t) == t # NoneText /\ t # IntValue

\* What one call of _oa.chat.completions.create can do: raise, or return a
\* completion with the given content.
BackendOutcomes == {[kind |-> "raise", content |-> << >>],
                    [kind |-> "reply", content |-> Sample.REPLY]}

\* n words "w", each after a space
Filler(n) == [i \in 1..(2 * n) |-> IF i % 2 = 1 THEN " " ELSE "w"]

\* a completion of MAX_LENS_WORDS + 2 words
T_LONG_REPLY == Sample.VERDICT_GO \o Filler(MAX_LENS_WORDS)

\* further outcomes of the backend call: a completion longer than the cap,
\* and a completion whose content is None
MoreBackendOutcomes ==
  BackendOutcomes \cup {[kind |-> "reply", content |-> T_LONG_REPLY],
                        [kind |-> "reply", content |-> NoneText]}

\* the outcome of a call: an exception, or the value returned
Raised == [raised |-> TRUE, md |-> << >>]
Returned(md) == [raised |-> FALSE, md |-> md]

\* run_lens returning the completion without the word cap (a fault injected
\* to test C12)
run_lens_uncapped(lens, text, oa, backend) ==
  IF ~oa
  THEN Returned(_word_cap(_normalize_headers(_fallback_lens_text(lens, text)),
                          MAX_LENS_WORDS))
  ELSE IF ~IsStr(text)
  THEN Raised
  ELSE IF backend.kind = "reply" /\ IsStr(backend.content)
  THEN Returned(_normalize_headers(strip(backend.content)))
  ELSE Returned(_word_cap(_normalize_headers(_fallback_lens_text(lens, text)),
                          MAX_LENS_WORDS))

\* run_lens(lens, text), with _oa configured or not (oa) and the outcome of
\* the backend call if one is made.  text.strip() in the prompt is evaluated
\* before the try block; inside it, an exception of create() or of
\* content.strip() is caught and the checklist is used.
run_lens(lens, text, oa, backend) ==
  IF ~oa
  THEN Returned(_word_cap(_normalize_headers(_fallback_lens_text(lens, text)),
                          MAX_LENS_WORDS))
  ELSE IF ~IsStr(text)
  THEN Raised
  ELSE LET md == IF backend.kind = "reply" /\ IsStr(backend.content)
                 THEN strip(backend.content)
                 ELSE _fallback_lens_text(lens, text)
       IN  Returned(_word_cap(_normalize_headers(md), MAX_LENS_WORDS))

\* the limit of the slice md[:2900]
SECTION_TEXT_LIMIT == 2900

\* ------------------------------------------------------------------------
\* HTTP responses, views, outbound Slack calls
\* ------------------------------------------------------------------------

\* a modal view: its callback_id, private_metadata (JSON text) and title
View(callback_id, private_metadata, title) ==
  [callback_id |-> callback_id, private_metadata |-> private_metadata, title |-> title]

NoView == View(None, << >>, << >>)

\* an HTTP response: status, the shape of the body, its text and its view
Response(status, kind, text, view) ==
  [status |-> status, kind |-> kind, text |-> text, view |-> view]

\* make_response("invalid signature", 401)
Unauthorized == Response(401, "text", Text.INVALID_SIGNATURE, NoView)

\* make_response("", 200)
EmptyAck == Response(200, "text", << >>, NoView)

\* the 500 Flask answers when the view function raises
ServerError == Response(500, "error", << >>, NoView)

\* jsonify({"response_action": "push", "view": view})
Push(view) == Response(200, "push", << >>, view)

\* jsonify({"response_action": "clear"})
Clear == Response(200, "clear", << >>, NoView)

\* jsonify({"response_type": "ephemeral", "text": text})
EphemeralAck(text) == Response(200, "ephemeral", text, NoView)

\* jsonify({"challenge": challenge})
ChallengeEcho(challenge) == Response(200, "challenge", IdText(challenge), NoView)

\* the JSON body of the direct endpoints, {"ok": True, ... : text}
ApiResult(text) == Response(200, "api", text, NoView)

\* the blocks argument of a message
NoBlocks == [kind |-> "none", text |-> << >>]
lens_picker_blocks == [kind |-> "lens_picker", text |-> << >>]
OriginalBlocks == [kind |-> "original", text |-> << >>]
SectionBlock(md) == [kind |-> "section", text |-> Slice(md, SECTION_TEXT_LIMIT)]

\* views_open called with a trigger_id kept from an earlier callback (a
\* fault injected to test C15)
Call_kept_trigger(api, channel, user, text, blocks, trigger_id, view, ok) ==
  [api |-> api, channel |-> channel, user |-> user, text |-> text,
   blocks |-> blocks, trigger_id |-> IF api = "views_open" THEN "T0" ELSE trigger_id,
   view |-> view, ok |-> ok]

\* one call on the Slack client and whether it returned (ok) or raised
Call(api, channel, user, text, blocks, trigger_id, view, ok) ==
  [api |-> api, channel |-> channel, user |-> user, text |-> text,
   blocks |-> blocks, trigger_id |-> trigger_id, view |-> view, ok |-> ok]

\* the view pushed by the temporary block of interactivity
TestModal == View("noop", << >>, Text.TestModal)

\* the view of the lens-context modal
LensModal(lens, channel_id, user_id) ==
  View("lens_modal",
       json_dumps(<< <<"lens", lens>>, <<"channel_id", channel_id>>, <<"user_id", user_id>> >>),
       Format(LENS_NAMES_get(lens)) \o Text.LensTitleSuffix)

\* the view of the decision modal
DecideModal(channel_id, user_id) ==
  View("decide_modal",
       json_dumps(<< <<"channel_id", channel_id>>, <<"user_id", user_id>> >>),
       Text.DecisionBrief)

\* the f-string: hourglass, space, label, " analysis", ellipsis
InProgressText(label) == Text.HourglassPrefix \o Format(label) \o Text.AnalysisSuffix

\* ------------------------------------------------------------------------
\* Requests
\* ------------------------------------------------------------------------

\* The parsed content of a request, one record shape for all endpoints.  A
\* field the request does not carry is None (identifiers) or the empty
\* text.  valid_json is whether the JSON the endpoint parses is well formed.
Body0 ==
  [valid_json |-> TRUE, type |-> None, event_type |-> None, challenge |-> None,
   callback_id |-> None, action_id |-> << >>, value |-> "", text |-> << >>,
   user |-> None, channel |-> None, container_channel |-> None, bot_id |-> None,
   view_callback_id |-> None, private_metadata |-> << >>, ctx |-> << >>,
   trigger_id |-> None, command |-> << >>, lens |-> None]

\* A request: its endpoint, what verifier.is_valid_request does with it
\* (sig: "valid" when it returns True, "invalid" when it returns False,
\* "error" when it raises) and its parsed content
Request(ep, sig, body) == [ep |-> ep, sig |-> sig, body |-> body]

\* verify_request with the except clause answering True: a request on which
\* is_valid_request raises is accepted (a fault injected to test C1)
verify_request_failopen(req) == req.sig # "invalid"

\* verify_request(req): True only when is_valid_request returns True; False
\* when it returns False and when it raises
verify_request(req) == req.sig = "valid"

\* ------------------------------------------------------------------------
\* Interaction log: log_corpus
\* ------------------------------------------------------------------------

\* `x or ""` for an identifier
OrEmpty(x) == IF x = None THEN "" ELSE x

\* the row log_corpus inserts (ts, created_at and payload_json are not modelled;
\* the id is the position in the table)
Row(kind, text, user, channel) ==
  [kind |-> kind, text |-> text, user |-> OrEmpty(user), channel |-> OrEmpty(channel)]

\* log_corpus without its try/except: a failing INSERT raises into the view
\* function (a fault injected to test C4)
log_corpus_unguarded(kind, text, user, channel, ok) ==
  [attempts |-> <<[kind |-> kind, stored |-> ok]>>,
   rows |-> IF ok THEN <<Row(kind, text, user, channel)>> ELSE << >>,
   raised |-> ~ok]

\* Result of a call log_corpus(kind, text, user, channel) when the INSERT
\* succeeds (ok) or raises: the rows inserted, the attempt, and whether an
\* exception leaves log_corpus.
log_corpus(kind, text, user, channel, ok) ==
  [attempts |-> <<[kind |-> kind, stored |-> ok]>>,
   rows |-> IF ok THEN <<Row(kind, text, user, channel)>> ELSE << >>,
   raised |-> FALSE]

\* no call of log_corpus
NoLog == [attempts |-> << >>, rows |-> << >>, raised |-> FALSE]

\* ------------------------------------------------------------------------
\* Effects of a view function
\* ------------------------------------------------------------------------

\* What one run of a view function does: the response it returns, its calls
\* on the Slack client, its calls of log_corpus with the rows inserted, its
\* runs of run_lens, and the threads it starts.
Effects(resp, calls, lg, runs, spawn) ==
  [resp |-> resp, calls |-> calls, logs |-> lg.attempts, rows |-> lg.rows,
   runs |-> runs, spawn |-> spawn]

\* a response and nothing else
Only(resp) == Effects(resp, << >>, NoLog, << >>, << >>)

\* The environment of one run of a view function: whether the INSERT
\* succeeds, whether its first and its second Slack call succeed, what the
\* backend call does.
Env(logOk, slack1, slack2, backend) ==
  [logOk |-> logOk, slackOk |-> <<slack1, slack2>>, backend |-> backend]

\* the backend is not called
NoBackend == [kind |-> "raise", content |-> << >>]

\* The environments of each endpoint: those of the calls its view function
\* contains (slack_events: one INSERT, one Slack call; interactivity: an
\* INSERT, up to two Slack calls, run_lens; commands: one INSERT, one Slack
\* call; api_lens: run_lens and one INSERT; api_decide: one INSERT).
EnvsOf(ep) ==
  CASE ep = "interactivity" ->
         { Env(l, s1, s2, b) : l \in BOOLEAN, s1 \in BOOLEAN, s2 \in BOOLEAN, b \in BackendOutcomes }
    [] ep = "api_lens" ->
         { Env(l, TRUE, TRUE, b) : l \in BOOLEAN, b \in BackendOutcomes }
    [] ep = "api_decide" ->
         { Env(l, TRUE, TRUE, NoBackend) : l \in BOOLEAN }
    [] OTHER ->
         { Env(l, s1, TRUE, NoBackend) : l \in BOOLEAN, s1 \in BOOLEAN }

\* A thread with target _post_lens_result_async and args (lens, text,
\* channel_id, user_id): where it is (pc: "ready" before run_lens, "ran"
\* after it, "done" after the send), the markdown it computed, its Slack calls.
Thread(lens, text, channel_id, user_id, pc, md, calls) ==
  [lens |-> lens, text |-> text, channel_id |-> channel_id, user_id |-> user_id,
   pc |-> pc, md |-> md, calls |-> calls]

\* the chat_postEphemeral of _post_lens_result_async
ResultMessage(lens, md, channel_id, user_id, ok) ==
  Call("chat_postEphemeral", channel_id, user_id, LENS_NAMES_get(lens),
       SectionBlock(md), None, NoView, ok)

\* one run of run_lens inside a view function
LensRun(lens, text) == [lens |-> lens, text |-> text]

\* ------------------------------------------------------------------------
\* View functions
\* ------------------------------------------------------------------------

\* slack_events: POST /slack/events
slack_events(req, env, oa) ==
  IF ~verify_request(req) THEN Only(Unauthorized)
  ELSE
    \* request.get_json(silent=True) or {}
    LET body == IF req.body.valid_json THEN req.body ELSE Body0
    IN  IF body.type = "url_verification" THEN Only(ChallengeEcho(body.challenge))
        ELSE IF body.type = "event_callback"
        THEN LET lg == IF body.event_type = "message" /\ body.bot_id \in {None, ""}
                       THEN log_corpus("event", body.text, body.user, body.channel, env.logOk)
                       ELSE NoLog
                 calls == IF body.event_type = "app_mention"
                          THEN <<Call("chat_postMessage", body.channel, None, Text.HINT,
                                      NoBlocks, None, NoView, env.slackOk[1])>>
                          ELSE << >>
             IN  IF lg.raised THEN Effects(ServerError, << >>, lg, << >>, << >>)
                 ELSE Effects(EmptyAck, calls, lg, << >>, << >>)
        ELSE Only(EmptyAck)

\* user_id of interactivity: (payload.get("user") or {}).get("id", "")
PayloadUserId(payload) == OrEmpty(payload.user)

\* channel_id of interactivity: the channel's id, or the container's channel_id
PayloadChannelId(payload) ==
  IF payload.channel \notin {None, ""} THEN payload.channel
  ELSE OrEmpty(payload.container_channel)

\* interactivity with the temporary block removed (a fault injected to test
\* C21)
TempBlockApplies_removed(payload) == FALSE

\* the temporary block at the top of interactivity: any block_actions payload
\* is answered at once with the test modal
TempBlockApplies(payload) == payload.type = "block_actions"

\* has_context: the message has text and it is not the picker's own prompt
has_context(orig_text) ==
  /\ strip(orig_text) # << >>
  /\ ~Contains(Text.picker_text, lower(orig_text))

\* aid.startswith("lens_") or selected in {...}
IsLensSelection(aid, selected) ==
  \/ (Len(aid) >= Len(Text.A_lens_prefix) /\ SubSeq(aid, 1, Len(Text.A_lens_prefix)) = Text.A_lens_prefix)
  \/ selected \in LensIds

\* the "publish" branch of a button click (aid == "post_lens")
PostLensBranch(payload, user_id, channel_id, env) ==
  LET post == Call("chat_postMessage", channel_id, None, Text.LENS_ANALYSIS,
                   OriginalBlocks, None, NoView, env.slackOk[1])
      conf == Call("chat_postEphemeral", channel_id, user_id, Text.POSTED,
                   NoBlocks, None, NoView, env.slackOk[2])
  IN  IF ~env.slackOk[1] THEN Effects(EmptyAck, <<post>>, NoLog, << >>, << >>)
      ELSE IF ~env.slackOk[2] THEN Effects(EmptyAck, <<post, conf>>, NoLog, << >>, << >>)
      ELSE Effects(EmptyAck, <<post, conf>>,
                   log_corpus("lens_posted", Text.LENS_POSTED, user_id, channel_id, env.logOk),
                   << >>, << >>)

\* the "lens selected" branch of a button click
LensSelectedBranch(payload, user_id, channel_id, env, oa) ==
  LET lens == payload.value
      label == LENS_NAMES_get(lens)
      orig_text == payload.text
      notice == Call("chat_postEphemeral", channel_id, user_id, InProgressText(label),
                     NoBlocks, None, NoView, env.slackOk[1])
  IN  IF has_context(orig_text)
      THEN LET md == run_lens(lens, orig_text, oa, env.backend).md
               result == Call("chat_postEphemeral", channel_id, user_id, label,
                              SectionBlock(md), None, NoView, env.slackOk[2])
           IN  Effects(EmptyAck, <<notice, result>>, NoLog,
                       <<LensRun(lens, orig_text)>>, << >>)
      ELSE Effects(Push(LensModal(lens, channel_id, user_id)), <<notice>>, NoLog,
                   << >>, << >>)

\* the block_actions branch of interactivity, after the log call
BlockActionsBranch(payload, user_id, channel_id, env, oa) ==
  IF payload.action_id = Text.A_post_lens
  THEN PostLensBranch(payload, user_id, channel_id, env)
  ELSE IF IsLensSelection(payload.action_id, payload.value)
  THEN LensSelectedBranch(payload, user_id, channel_id, env, oa)
  ELSE Only(EmptyAck)

\* the private context read with chan and usr taken from each other's key
\* (a fault injected to test C10)
DecodePrivateContext_swapped(pm) ==
  [lens |-> dict_get(pm, "lens"), channel_id |-> dict_get(pm, "user_id"),
   user_id |-> dict_get(pm, "channel_id")]

\* the private context as the lens_modal branch reads it: lens, chan, usr
DecodePrivateContext(pm) ==
  [lens |-> dict_get(pm, "lens"), channel_id |-> dict_get(pm, "channel_id"),
   user_id |-> dict_get(pm, "user_id")]

\* _post_lens_result_async(lens, ctx, chan, usr) called in the view function
\* instead of in a thread: it has run the lens and sent the result when the
\* view function reaches its return (a fault injected to test C7)
StartedThread_inline(lens, ctx, chan, usr, oa, env) ==
  LET md == run_lens(lens, ctx, oa, env.backend).md
  IN  <<Thread(lens, ctx, chan, usr, "done", md,
               <<ResultMessage(lens, md, chan, usr, env.slackOk[2])>>)>>

\* threading.Thread(target=_post_lens_result_async, args=(lens, ctx, chan, usr),
\* daemon=True).start(): the threads started, none of which has run yet
StartedThread(lens, ctx, chan, usr, oa, env) ==
  <<Thread(lens, ctx, chan, usr, "ready", << >>, << >>)>>

\* the lens_modal branch of a view_submission
LensModalBranch(payload, env, oa) ==
  \* view.get("private_metadata") or "{}"
  LET text == IF payload.private_metadata = << >>
              THEN json_dumps(<< >>) ELSE payload.private_metadata
      loaded == json_loads(text)
  IN  IF ~loaded.ok THEN Only(Clear)
      ELSE LET pm == DecodePrivateContext(loaded.dict)
               ctx == strip(payload.ctx)
               notice == Call("chat_postEphemeral", pm.channel_id, pm.user_id,
                              InProgressText(LENS_NAMES_get(pm.lens)),
                              NoBlocks, None, NoView, env.slackOk[1])
           IN  Effects(Clear, <<notice>>, NoLog, << >>,
                       StartedThread(pm.lens, ctx, pm.channel_id, pm.user_id, oa, env))

\* the branch of interactivity a view_submission with this callback id takes
ViewSubmissionBranch(payload, env, oa) ==
  IF payload.view_callback_id = "lens_modal" THEN LensModalBranch(payload, env, oa)
  ELSE Only(EmptyAck)

\* the effects e of a branch, after the call lg of log_corpus
AfterLog(lg, e) ==
  IF lg.raised THEN Effects(ServerError, << >>, lg, << >>, << >>)
  ELSE [e EXCEPT !.logs = lg.attempts \o @, !.rows = lg.rows \o @]

\* interactivity: POST /slack/interactivity
interactivity(req, env, oa) ==
  IF ~verify_request(req) THEN Only(Unauthorized)
  \* json.loads of the payload field raises
  ELSE IF ~req.body.valid_json THEN Only(ServerError)
  ELSE
    LET payload == req.body
        user_id == PayloadUserId(payload)
        channel_id == PayloadChannelId(payload)
        lg == log_corpus("interaction", payload.text, user_id, channel_id, env.logOk)
    IN  IF TempBlockApplies(payload) THEN Only(Push(TestModal))
        ELSE IF payload.type = "message_action" /\ payload.callback_id = "apply_lens_action"
        THEN AfterLog(lg,
               Effects(EmptyAck,
                       <<Call("chat_postEphemeral",
                              IF payload.channel # None THEN payload.channel ELSE channel_id,
                              user_id, Text.PICKER, lens_picker_blocks, None, NoView,
                              env.slackOk[1])>>,
                       NoLog, << >>, << >>))
        ELSE IF payload.type = "block_actions"
        THEN AfterLog(lg, BlockActionsBranch(payload, user_id, channel_id, env, oa))
        ELSE IF payload.type = "view_submission"
        THEN AfterLog(lg, ViewSubmissionBranch(payload, env, oa))
        ELSE AfterLog(lg, Only(EmptyAck))

\* the /lens branch letting the exception of a failed send escape (a fault
\* injected to test C16)
LensCommandBranch_unguarded(form, env) ==
  Effects(IF env.slackOk[1] THEN EphemeralAck(Text.PICK_BELOW) ELSE ServerError,
          <<Call("chat_postEphemeral", form.channel, form.user, Text.PICKER,
                 lens_picker_blocks, None, NoView, env.slackOk[1])>>,
          NoLog, << >>, << >>)

\* the /lens branch of commands: the ack is built, the picker is sent
\* inside try/except, the ack is returned
LensCommandBranch(form, env) ==
  Effects(EphemeralAck(Text.PICK_BELOW),
          <<Call("chat_postEphemeral", form.channel, form.user, Text.PICKER,
                 lens_picker_blocks, None, NoView, env.slackOk[1])>>,
          NoLog, << >>, << >>)

\* commands: POST /slack/commands
commands(req, env, oa) ==
  IF ~verify_request(req) THEN Only(Unauthorized)
  ELSE
    LET form == req.body
        cmd == form.command
        lg == log_corpus("command", form.text, form.user, form.channel, env.logOk)
    IN  IF cmd = Text.lens_cmd
        THEN AfterLog(lg, LensCommandBranch(form, env))
        ELSE IF cmd = Text.decide_cmd
        THEN AfterLog(lg,
               Effects(EphemeralAck(Text.OPENING),
                       <<Call("views_open", None, None, << >>, NoBlocks, form.trigger_id,
                              DecideModal(form.channel, form.user), env.slackOk[1])>>,
                       NoLog, << >>, << >>))
        ELSE AfterLog(lg, Only(EphemeralAck(Text.UnsupportedPrefix \o cmd \o Text.UnsupportedSuffix)))

\* api_lens: POST /api/lens
api_lens(req, env, oa) ==
  LET data == IF req.body.valid_json THEN req.body ELSE Body0
      lens == IF data.lens = None THEN "cfo_skeptic" ELSE data.lens
      text == data.text
      r == run_lens(lens, text, oa, env.backend)
      md == IF r.raised THEN _fallback_lens_text(lens, text) ELSE r.md
      lg == log_corpus("api_lens", text, "", "", env.logOk)
  IN  Effects(IF lg.raised THEN ServerError ELSE ApiResult(md), << >>, lg,
              <<LensRun(lens, text)>>, << >>)

\* api_decide: POST /api/decide
api_decide(req, env, oa) ==
  LET d == IF req.body.valid_json THEN req.body ELSE Body0
      title == IF d.text = << >> THEN Text.Decision ELSE d.text
      brief_md == Text.BriefHash \o title \o Text.BriefRest
  IN  AfterLog(log_corpus("api_decide", title, "", "", env.logOk),
               Only(ApiResult(brief_md)))

\* ------------------------------------------------------------------------
\* The requests the model sends
\* ------------------------------------------------------------------------

\* a human message, an @mention, the two commands
MessageEvent ==
  [Body0 EXCEPT !.type = "event_callback", !.event_type = "message",
                !.text = Sample.PROPOSAL, !.user = "U1", !.channel = "C1"]

MentionEvent ==
  [Body0 EXCEPT !.type = "event_callback", !.event_type = "app_mention",
                !.text = Sample.PROPOSAL, !.user = "U1", !.channel = "C1"]

LensCommand ==
  [Body0 EXCEPT !.command = Text.lens_cmd, !.user = "U1", !.channel = "C1", !.trigger_id = "T3"]

DecideCommand ==
  [Body0 EXCEPT !.command = Text.decide_cmd, !.user = "U1", !.channel = "C1", !.trigger_id = "T3"]

\* bodies of POST /slack/events
EventBodies ==
  { [Body0 EXCEPT !.type = "url_verification", !.challenge = "tok"],
    MessageEvent,
    [MessageEvent EXCEPT !.user = None, !.bot_id = "B1"],
    MentionEvent,
    [Body0 EXCEPT !.type = "event_callback", !.event_type = "reaction_added",
                  !.user = "U1"],
    [Body0 EXCEPT !.valid_json = FALSE] }

\* a button click on a message with the given action id, value and text
ButtonClick(aid, value, text) ==
  [Body0 EXCEPT !.type = "block_actions", !.action_id = aid, !.value = value,
                !.text = text, !.user = "U1", !.channel = "C1",
                !.container_channel = "C1", !.trigger_id = "T1"]

\* the submission of a modal with the given callback id, private_metadata
\* and pasted context
Submission(user, callback_id, private_metadata, ctx) ==
  [Body0 EXCEPT !.type = "view_submission", !.user = user,
                !.view_callback_id = callback_id,
                !.private_metadata = private_metadata, !.ctx = ctx,
                !.trigger_id = "T2"]

\* the submission of the lens-context modal opened for scaler, C1, U1
LensSubmission ==
  Submission("U1", "lens_modal", LensModal("scaler", "C1", "U1").private_metadata, Sample.LAUNCH)

\* Submissions of the lens-context modal.  Slack returns private_metadata as
\* the view carried it, so it is what LensModal wrote, or absent.
LensModalSubmissions ==
  { LensSubmission,
    Submission("U2", "lens_modal", LensModal("mystery", "C2", "U2").private_metadata, << >>),
    Submission("U2", "lens_modal", LensModal("operator", "", "U2").private_metadata, Sample.LAUNCH),
    Submission("U1", "lens_modal", << >>, Sample.LAUNCH) }

\* bodies of POST /slack/interactivity
InteractivityBodies ==
  { [Body0 EXCEPT !.valid_json = FALSE],
    [Body0 EXCEPT !.type = "message_action", !.callback_id = "apply_lens_action",
                  !.text = Sample.PROPOSAL, !.user = "U1", !.channel = "C1",
                  !.trigger_id = "T1"],
    [Body0 EXCEPT !.type = "message_action", !.callback_id = "other_action",
                  !.text = Sample.PROPOSAL, !.user = "U1", !.channel = "C1"],
    ButtonClick(Text.A_post_lens, "post", Sample.PROPOSAL),
    ButtonClick(Text.A_lens_cfo, "cfo_skeptic", Sample.PROPOSAL),
    ButtonClick(Text.A_lens_cfo, "cfo_skeptic", Text.PICKER),
    ButtonClick(Text.A_lens_cfo, "cfo_skeptic", << >>),
    ButtonClick(Text.A_lens_cfo, "cfo_skeptic", Sample.REPLY_TO_PICKER),
    ButtonClick(Sample.A_pick, "scaler", Sample.BLANK),
    ButtonClick(Text.A_post_brief, "post", Sample.PROPOSAL),
    Submission("U1", "decide_modal", DecideModal("C1", "U1").private_metadata, << >>),
    Submission("U1", "noop", << >>, << >>),
    [Body0 EXCEPT !.type = "shortcut", !.user = "U1"] }
  \cup LensModalSubmissions

\* bodies (forms) of POST /slack/commands
CommandBodies ==
  { LensCommand, DecideCommand, [LensCommand EXCEPT !.command = Sample.other_cmd] }

\* bodies of POST /api/lens: a lens and a text, the empty object, and a body
\* whose "text" is a number
ApiLensBodies ==
  { [Body0 EXCEPT !.lens = "scaler", !.text = Sample.PROPOSAL], Body0,
    [Body0 EXCEPT !.lens = "scaler", !.text = IntValue] }

\* bodies of POST /api/decide
ApiDecideBodies == { [Body0 EXCEPT !.text = Sample.TITLE] }

\* Requests that pass verify_request, and requests that do not: with a wrong
\* or missing signature (is_valid_request returns False) and with headers
\* on which is_valid_request raises.
Verified(ep, bodies) == { Request(ep, "valid", b) : b \in bodies }
Unverified(ep, bodies, b0) ==
  { Request(ep, "invalid", b) : b \in bodies } \cup { Request(ep, "error", b0) }

EventRequests ==
  Verified("events", EventBodies)
  \cup Unverified("events", {MessageEvent, MentionEvent}, MessageEvent)

InteractivityRequests ==
  Verified("interactivity", InteractivityBodies)
  \cup Unverified("interactivity",
                  {LensSubmission, ButtonClick(Text.A_lens_cfo, "cfo_skeptic", Sample.PROPOSAL)},
                  LensSubmission)

CommandRequests ==
  Verified("commands", CommandBodies)
  \cup Unverified("commands", {LensCommand, DecideCommand}, LensCommand)

\* the direct endpoints, called with a valid Slack signature or with none
ApiLensRequests ==
  { Request("api_lens", sig, b) : sig \in {"valid", "invalid"}, b \in ApiLensBodies }

ApiDecideRequests ==
  { Request("api_decide", sig, b) : sig \in {"valid", "invalid"}, b \in ApiDecideBodies }

\* ------------------------------------------------------------------------
\* State
\* ------------------------------------------------------------------------

\* the number of requests of one behaviour
MaxRequests == 1

\* a request starts at most one thread
MaxThreads == MaxRequests

VARIABLES
  oa,       \* whether _oa is set (OPENAI_API_KEY configured at import)
  nreq,     \* the number of requests received
  cur,      \* the request being handled, or the last one handled
  corpus,   \* the rows of the corpus table, in insertion order
  workers,  \* the threads started, in order, with what each has done
  call      \* one call of a function on its own: its arguments, its outcome

vars == <<oa, nreq, cur, corpus, workers, call>>

\* A call of the function fn with the arguments it takes among lens, text,
\* limit and backend (lines: the lines the text was made of); once made
\* (done), whether it raised and what it returned.
FunctionCall(fn, lens, text, limit, backend) ==
  [fn |-> fn, lens |-> lens, text |-> text, limit |-> limit, backend |-> backend,
   lines |-> << >>, done |-> FALSE, raised |-> FALSE, out |-> << >>]

\* no function is called on its own
NoCall == FunctionCall("none", None, << >>, 0, NoBackend)

\* no request yet
NoRequest ==
  [status |-> "none", rid |-> 0, req |-> Request("none", "invalid", Body0),
   resp |-> EmptyAck, calls |-> << >>, logs |-> << >>, runs |-> << >>, spawned |-> 0]

\* Whether the view function of the request's endpoint calls verify_request
\* and it returns True (the direct endpoints never call it).
Authenticated(req) ==
  req.ep \in {"events", "interactivity", "commands"} /\ verify_request(req)

\* the thread t, started by request rid
Worker(rid, authenticated, t) ==
  [rid |-> rid, authenticated |-> authenticated, pc |-> t.pc,
   lens |-> t.lens, text |-> t.text,
   channel_id |-> t.channel_id, user_id |-> t.user_id,
   md |-> t.md, calls |-> t.calls]

\* the view function of each endpoint
Dispatch(req, env) ==
  CASE req.ep = "events" -> slack_events(req, env, oa)
    [] req.ep = "interactivity" -> interactivity(req, env, oa)
    [] req.ep = "commands" -> commands(req, env, oa)
    [] req.ep = "api_lens" -> api_lens(req, env, oa)
    [] req.ep = "api_decide" -> api_decide(req, env, oa)

Init ==
  /\ oa \in BOOLEAN
  /\ nreq = 0
  /\ cur = NoRequest
  /\ corpus = << >>
  /\ workers = << >>
  /\ call = NoCall

\* Flask runs the view function of request req up to its return statement,
\* with the effects e; at most max requests are received
Receive(max, req, e) ==
  /\ nreq < max
  /\ cur.status # "handling"
  /\ cur' = [status |-> "handling", rid |-> nreq + 1, req |-> req, resp |-> e.resp,
             calls |-> e.calls, logs |-> e.logs, runs |-> e.runs,
             spawned |-> Len(e.spawn)]
  /\ corpus' = corpus \o [i \in 1..Len(e.rows) |->
                            [row |-> e.rows[i], rid |-> nreq + 1, sig |-> req.sig,
                             authenticated |-> Authenticated(req)]]
  /\ workers' = workers \o [i \in 1..Len(e.spawn) |->
                              Worker(nreq + 1, Authenticated(req), e.spawn[i])]
  /\ nreq' = nreq + 1
  /\ UNCHANGED <<oa, call>>

Handle(req, e) == Receive(MaxRequests, req, e)

SlackEvents ==
  \E req \in EventRequests : \E env \in EnvsOf("events") :
    /\ req.ep = "events"
    /\ Handle(req, slack_events(req, env, oa))

Interactivity ==
  \E req \in InteractivityRequests : \E env \in EnvsOf("interactivity") :
    /\ req.ep = "interactivity"
    /\ Handle(req, interactivity(req, env, oa))

Commands ==
  \E req \in CommandRequests : \E env \in EnvsOf("commands") :
    /\ req.ep = "commands"
    /\ Handle(req, commands(req, env, oa))

ApiLens ==
  \E req \in ApiLensRequests : \E env \in EnvsOf("api_lens") :
    /\ req.ep = "api_lens"
    /\ Handle(req, api_lens(req, env, oa))

ApiDecide ==
  \E req \in ApiDecideRequests : \E env \in EnvsOf("api_decide") :
    /\ req.ep = "api_decide"
    /\ Handle(req, api_decide(req, env, oa))

\* the view function returns and Flask sends the response
Return ==
  /\ cur.status = "handling"
  /\ cur' = [cur EXCEPT !.status = "done"]
  /\ UNCHANGED <<oa, nreq, corpus, workers, call>>

\* _post_lens_result_async, first statement: md = run_lens(lens, text); an
\* exception of run_lens ends the thread
WorkerRunLens(i) ==
  /\ i <= Len(workers)
  /\ workers[i].pc = "ready"
  /\ \E backend \in BackendOutcomes :
       LET r == run_lens(workers[i].lens, workers[i].text, oa, backend)
       IN  workers' = [workers EXCEPT ![i].pc = IF r.raised THEN "raised" ELSE "ran",
                                      ![i].md = r.md]
  /\ UNCHANGED <<oa, nreq, cur, corpus, call>>

\* _post_lens_result_async sending again after a send that raised (a fault
\* injected to test C8)
WorkerPost_retry(i) ==
  /\ i <= Len(workers)
  /\ workers[i].pc = "ran"
  /\ \E ok \in BOOLEAN :
       workers' = [workers EXCEPT
                     ![i].pc = IF ok \/ Len(workers[i].calls) >= 1 THEN "done" ELSE "ran",
                     ![i].calls = @ \o <<ResultMessage(workers[i].lens, workers[i].md,
                                                       workers[i].channel_id,
                                                       workers[i].user_id, ok)>>]
  /\ UNCHANGED <<oa, nreq, cur, corpus, call>>

\* _post_lens_result_async reading channel and user from state shared by
\* all threads, which the latest submission has overwritten (a fault
\* injected to test C20)
WorkerPost_shared(i) ==
  /\ i <= Len(workers)
  /\ workers[i].pc = "ran"
  /\ \E ok \in BOOLEAN :
       workers' = [workers EXCEPT ![i].pc = "done",
                     ![i].calls = @ \o <<ResultMessage(workers[i].lens, workers[i].md,
                                                       workers[Len(workers)].channel_id,
                                                       workers[Len(workers)].user_id, ok)>>]
  /\ UNCHANGED <<oa, nreq, cur, corpus, call>>

\* _post_lens_result_async, the try block: one chat_postEphemeral, which
\* returns or raises; the exception is printed and the thread ends
WorkerPost(i) ==
  /\ i <= Len(workers)
  /\ workers[i].pc = "ran"
  /\ \E ok \in BOOLEAN :
       workers' = [workers EXCEPT ![i].pc = "done",
                     ![i].calls = @ \o <<ResultMessage(workers[i].lens, workers[i].md,
                                                       workers[i].channel_id,
                                                       workers[i].user_id, ok)>>]
  /\ UNCHANGED <<oa, nreq, cur, corpus, call>>


Next ==
  \/ SlackEvents
  \/ Interactivity
  \/ Commands
  \/ ApiLens
  \/ ApiDecide
  \/ Return
  \/ \E i \in 1..MaxThreads : WorkerRunLens(i)
  \/ \E i \in 1..MaxThreads : WorkerPost(i)

Spec == Init /\ [][Next]_vars

\* thread i has been started and has not yet run its first statement: the
\* states in which WorkerRunLens(i) is enabled
Ready(i) == i <= Len(workers) /\ workers[i].pc = "ready"

\* The scheduler runs every started thread and every view function returns:
\* weak fairness of Return, of WorkerRunLens(i) and of WorkerPost(i).
\* WorkerRunLens(i) is enabled exactly in the states Ready(i) and each of its
\* steps leaves them, so WF_vars(WorkerRunLens(i)) is []<>~Ready(i); it is
\* written in that form, which spares evaluating run_lens under ENABLED.
FairSpec ==
  /\ Spec
  /\ WF_vars(Return)
  /\ \A i \in 1..MaxThreads : []<>~Ready(i) /\ WF_vars(WorkerPost(i))


\* ------------------------------------------------------------------------
\* The functions on their own: each is called once, with arguments drawn
\* from bounded sets
\* ------------------------------------------------------------------------

\* lens ids: the keys of LENS_NAMES, ids that are no key, and None
RunLensLenses == LensIds \cup {"mystery", "", None}

\* The text arguments the callers pass: a message text, the stripped text of
\* the modal, "" (what `or ""` makes of a missing or null text), and in
\* api_lens any other JSON value of the key "text", here a number.
RunLensTexts == {Sample.PROPOSAL, strip(Sample.LAUNCH), Sample.BLANK, << >>, IntValue}

RunLensCalls ==
  { FunctionCall("run_lens", l, t, 0, b) :
      l \in RunLensLenses, t \in RunLensTexts, b \in MoreBackendOutcomes }

\* the length of the texts given to _word_cap, and its largest limit
MaxTextLen == 5
MaxLimit == 2

\* every text of at most MaxTextLen characters among two letters, the space
\* and the newline: up to three words, with any whitespace between and around
WordCapTexts ==
  UNION { [1..k -> {"a", "b", " ", "<nl>"}] : k \in 0..MaxTextLen }

WordCapCalls ==
  { FunctionCall("_word_cap", None, t, n, NoBackend) :
      t \in WordCapTexts, n \in 0..MaxLimit }

\* the number of lines of the texts given to _normalize_headers
MaxLines == 2

\* A line of such a text: a heading of section `section` as written (head)
\* and the rest of the line, or (section 0, no head) a line without heading.
Line(section, head, rest) == [section |-> section, head |-> head, rest |-> rest]

\* Section n written in lower case with a colon, in bold with a hyphen,
\* plain with an em dash, and in the canonical form.
HeadingVariants(n) ==
  LET label == sections[n].label
  IN  { lower(label) \o <<":">>,
        <<"*">> \o label \o <<"*", " ", "-">>,
        label \o <<" ", "<emdash>">>,
        Tail(Canonical(label)) }

\* the lines: every variant of every heading followed by a value, and lines
\* without heading: a bullet, a label without separator, a label inside a
\* sentence, plain words
NormalizeLines ==
  UNION { { Line(n, h, Sample.VALUE) : h \in HeadingVariants(n) } : n \in 1..Len(sections) }
  \cup { Line(0, << >>, t) : t \in {Sample.BULLET, Sample.BARE_LABEL,
                                     Sample.SENTENCE, Sample.WORDS} }

\* the text of the lines ls[lo..hi], a newline between two lines
RECURSIVE Render(_, _, _)
Render(ls, lo, hi) ==
  IF lo > hi THEN << >>
  ELSE ls[lo].head \o ls[lo].rest
       \o (IF lo < hi THEN <<"<nl>">> ELSE << >>) \o Render(ls, lo + 1, hi)

\* the texts of at most MaxLines lines, each given with its lines
NormalizeCalls ==
  { [FunctionCall("_normalize_headers", None, Render(ls, 1, Len(ls)), 0, NoBackend)
       EXCEPT !.lines = ls] :
      ls \in UNION { [1..k -> NormalizeLines] : k \in 0..MaxLines } }

\* The texts of the clicked message: a proposal, the prompt of the picker
\* as sent and in lower case, a reply that quotes the prompt, texts that are
\* empty once stripped, a text with whitespace around it.
HasContextCalls ==
  { FunctionCall("has_context", None, t, 0, NoBackend) :
      t \in {Sample.PROPOSAL, Text.PICKER, lower(Text.PICKER), Sample.REPLY_TO_PICKER,
              Sample.BLANK, << >>, Sample.LAUNCH} }

FunctionCalls == RunLensCalls \cup WordCapCalls \cup NormalizeCalls \cup HasContextCalls

FunctionInit ==
  /\ call \in FunctionCalls
  /\ oa \in (IF call.fn = "run_lens" THEN BOOLEAN ELSE {FALSE})
  /\ nreq = 0
  /\ cur = NoRequest
  /\ corpus = << >>
  /\ workers = << >>

\* run_lens(lens, text)
CallRunLens ==
  /\ call.fn = "run_lens"
  /\ ~call.done
  /\ LET r == run_lens(call.lens, call.text, oa, call.backend)
     IN  call' = [call EXCEPT !.done = TRUE, !.raised = r.raised, !.out = r.md]
  /\ UNCHANGED <<oa, nreq, cur, corpus, workers>>

\* _word_cap(md, limit)
CallWordCap ==
  /\ call.fn = "_word_cap"
  /\ ~call.done
  /\ call' = [call EXCEPT !.done = TRUE, !.out = _word_cap(call.text, call.limit)]
  /\ UNCHANGED <<oa, nreq, cur, corpus, workers>>

\* _normalize_headers(md)
CallNormalizeHeaders ==
  /\ call.fn = "_normalize_headers"
  /\ ~call.done
  /\ call' = [call EXCEPT !.done = TRUE, !.out = _normalize_headers(call.text)]
  /\ UNCHANGED <<oa, nreq, cur, corpus, workers>>

\* has_context = bool(orig_text.strip()) and picker_text not in orig_text.lower()
CallHasContext ==
  /\ call.fn = "has_context"
  /\ ~call.done
  /\ call' = [call EXCEPT !.done = TRUE, !.out = has_context(call.text)]
  /\ UNCHANGED <<oa, nreq, cur, corpus, workers>>

FunctionNext ==
  \/ CallRunLens
  \/ CallWordCap
  \/ CallNormalizeHeaders
  \/ CallHasContext

FunctionSpec == FunctionInit /\ [][FunctionNext]_vars

\* ------------------------------------------------------------------------
\* Several lens_modal submissions and their threads
\* ------------------------------------------------------------------------

\* the number of submissions of one behaviour
MaxSubmissions == 2

\* two submissions that differ in lens, text, channel and user
ConcurrentSubmissions ==
  { LensSubmission,
    Submission("U2", "lens_modal", LensModal("operator", "C2", "U2").private_metadata,
               Sample.PROPOSAL) }

\* A verified lens_modal submission is received; its INSERT and its
\* in-progress notice succeed (their failures are part of Spec).
SubmitLensModal ==
  \E b \in ConcurrentSubmissions :
    LET req == Request("interactivity", "valid", b)
    IN  Receive(MaxSubmissions, req,
                interactivity(req, Env(TRUE, TRUE, TRUE, NoBackend), oa))

\* submissions, returns and the steps of the threads, in any order
ConcurrentNext ==
  \/ SubmitLensModal
  \/ Return
  \/ \E i \in 1..MaxSubmissions : WorkerRunLens(i)
  \/ \E i \in 1..MaxSubmissions : WorkerPost(i)

ConcurrentSpec == Init /\ [][ConcurrentNext]_vars

\* ------------------------------------------------------------------------
\* The lens_modal branch run statement by statement, interleaved with the
\* threads it starts
\* ------------------------------------------------------------------------

\* the number of submissions of one behaviour of StatementSpec
MaxStatementRuns == 1

\* the try block of the lens_modal branch started before it has sent the
\* notice (a fault injected to test C22)
LensModalStatements_thread_first == <<"start", "notice">>

\* The statements of the try block of the lens_modal branch that follow the
\* reads of pm, ctx, lens, chan and usr, in program order: the guarded
\* chat_postEphemeral of the notice, then threading.Thread(...).start().
LensModalStatements == <<"notice", "start">>

\* where the view function is after its statement s: before the next
\* statement of the block, or at its return statement ("handling")
AfterStatement(s) ==
  LET k == CHOOSE j \in 1..Len(LensModalStatements) : LensModalStatements[j] = s
  IN  IF k < Len(LensModalStatements) THEN LensModalStatements[k + 1] ELSE "handling"

\* the view function is inside the try block, before one of its statements
InTryBlock ==
  \E k \in 1..Len(LensModalStatements) : cur.status = LensModalStatements[k]

\* the response, set when the view function reaches its return statement
ResponseAfter(s, e) == IF AfterStatement(s) = "handling" THEN e.resp ELSE cur.resp

\* A verified lens_modal submission is received: verify_request, json.loads,
\* the log_corpus call and the reads of lines 262-267.  When the reads raise,
\* the view function goes to its return statement.
SubmissionReceived ==
  \E b \in LensModalSubmissions : \E logOk \in BOOLEAN :
    LET req == Request("interactivity", "valid", b)
        e == interactivity(req, Env(logOk, TRUE, TRUE, NoBackend), oa)
    IN  /\ nreq < MaxStatementRuns
        /\ cur.status # "handling"
        /\ ~InTryBlock
        /\ cur' = [status |-> IF e.spawn = << >> THEN "handling"
                              ELSE LensModalStatements[1],
                   rid |-> nreq + 1, req |-> req,
                   resp |-> IF e.spawn = << >> THEN e.resp ELSE NoRequest.resp,
                   calls |-> << >>, logs |-> e.logs, runs |-> << >>, spawned |-> 0]
        /\ corpus' = corpus \o [i \in 1..Len(e.rows) |->
                                  [row |-> e.rows[i], rid |-> nreq + 1, sig |-> req.sig,
                                   authenticated |-> Authenticated(req)]]
        /\ nreq' = nreq + 1
        /\ UNCHANGED <<oa, workers, call>>

\* lines 269-272: the in-progress notice is sent; chat_postEphemeral returns
\* or raises, and the exception is printed
SubmissionNotice ==
  /\ cur.status = "notice"
  /\ \E ok \in BOOLEAN :
       LET e == LensModalBranch(cur.req.body, Env(TRUE, ok, TRUE, NoBackend), oa)
       IN  cur' = [cur EXCEPT !.status = AfterStatement("notice"),
                              !.calls = @ \o e.calls,
                              !.resp = ResponseAfter("notice", e)]
  /\ UNCHANGED <<oa, nreq, corpus, workers, call>>

\* lines 275-279: the thread is created and started
SubmissionStart ==
  /\ cur.status = "start"
  /\ LET e == LensModalBranch(cur.req.body, Env(TRUE, TRUE, TRUE, NoBackend), oa)
     IN  /\ workers' = workers \o [i \in 1..Len(e.spawn) |->
                                     Worker(cur.rid, Authenticated(cur.req), e.spawn[i])]
         /\ cur' = [cur EXCEPT !.status = AfterStatement("start"),
                               !.spawned = Len(e.spawn),
                               !.resp = ResponseAfter("start", e)]
  /\ UNCHANGED <<oa, nreq, corpus, call>>

\* the statements of the view function, its return and the steps of the
\* threads, in any order
StatementNext ==
  \/ SubmissionReceived
  \/ SubmissionNotice
  \/ SubmissionStart
  \/ Return
  \/ \E i \in 1..MaxStatementRuns : WorkerRunLens(i)
  \/ \E i \in 1..MaxStatementRuns : WorkerPost(i)

StatementSpec == Init /\ [][StatementNext]_vars

\* ------------------------------------------------------------------------
\* Properties
\* ------------------------------------------------------------------------

\* a request has been handled, or is being handled
Handled == cur.status # "none"

\* the current request is one of the three Slack endpoints
OnSlackEndpoint == cur.req.ep \in {"events", "interactivity", "commands"}

\* the current request is a Slack callback whose signature is valid and
\* whose payload parses
VerifiedCallback ==
  /\ Handled
  /\ OnSlackEndpoint
  /\ cur.req.sig = "valid"
  /\ cur.req.body.valid_json

\* the current request is a verified button click that selects a lens
LensSelection ==
  /\ VerifiedCallback
  /\ cur.req.ep = "interactivity"
  /\ cur.req.body.type = "block_actions"
  /\ cur.req.body.action_id # Text.A_post_lens
  /\ IsLensSelection(cur.req.body.action_id, cur.req.body.value)

\* the request req is a verified submission of the modal with callback id cb
VerifiedSubmission(req, cb) ==
  /\ req.ep = "interactivity"
  /\ req.sig = "valid"
  /\ req.body.valid_json
  /\ req.body.type = "view_submission"
  /\ req.body.view_callback_id = cb

\* the workers started by the current request
WorkersOfCur == { i \in 1..Len(workers) : workers[i].rid = cur.rid }

\* this step is the view function of a verified lens_modal submission
\* running up to its return
LensSubmissionStep ==
  /\ nreq' = nreq + 1
  /\ VerifiedSubmission(cur'.req, "lens_modal")

\* C1: on /slack/events, /slack/interactivity and /slack/commands, a request
\* whose signature is not valid (is_valid_request returns False or raises)
\* is answered 401 "invalid signature"; for that request there is no call
\* of log_corpus, no row in the corpus, no call on the Slack client, no run
\* of run_lens and no thread.
C1_UnverifiedRejected ==
  (Handled /\ OnSlackEndpoint /\ cur.req.sig # "valid") =>
    /\ cur.resp = Unauthorized
    /\ cur.logs = << >>
    /\ cur.calls = << >>
    /\ cur.runs = << >>
    /\ cur.spawned = 0
    /\ \A i \in 1..Len(corpus) : corpus[i].rid # cur.rid
    /\ WorkersOfCur = {}

\* C1, its case: a lens_modal submission on which the signature check
\* raised has been answered 401
C1_Witness ==
  /\ cur.status = "done"
  /\ cur.req.ep = "interactivity"
  /\ cur.req.sig = "error"
  /\ cur.req.body.view_callback_id = "lens_modal"
  /\ cur.resp.status = 401

\* C2 (as claimed): on every endpoint, a request whose signature is not
\* valid leaves no row in the corpus and runs no lens.
C2_NoRecordWithoutSignature ==
  /\ \A i \in 1..Len(corpus) : corpus[i].sig = "valid"
  /\ (Handled /\ cur.req.sig # "valid") => cur.runs = << >>

\* C3 (as claimed): every verified callback (command, shortcut, button
\* click, modal submission, event callback, unrecognized payload) makes
\* exactly one call of log_corpus.  The url_verification handshake is left out.
C3_ExactlyOneLogCall ==
  (VerifiedCallback /\ cur.req.body.type # "url_verification") =>
    Len(cur.logs) = 1

\* C4: a failing INSERT never changes the outcome of a request.  For the
\* request handled and every environment, the view function returns the
\* same response, makes the same Slack calls, the same lens runs and starts
\* the same threads, with the same calls of log_corpus, whether the INSERT
\* succeeds or raises; and a request with a failed log attempt is never
\* answered 500.
C4_LogFailureChangesNothing ==
  Handled =>
    /\ \A env \in EnvsOf(cur.req.ep) :
         LET e == Dispatch(cur.req, [env EXCEPT !.logOk = TRUE])
             f == Dispatch(cur.req, [env EXCEPT !.logOk = FALSE])
         IN  /\ f.resp = e.resp
             /\ f.calls = e.calls
             /\ f.runs = e.runs
             /\ f.spawn = e.spawn
             /\ Len(f.logs) = Len(e.logs)
    /\ (\E i \in 1..Len(cur.logs) : ~cur.logs[i].stored) => cur.resp.status # 500

\* C4, its case: the INSERT of a verified /lens command failed, the picker
\* was still sent and the command acknowledged
C4_Witness ==
  /\ cur.status = "done"
  /\ VerifiedCallback
  /\ cur.req.ep = "commands"
  /\ cur.logs = <<[kind |-> "command", stored |-> FALSE]>>
  /\ corpus = << >>
  /\ cur.resp = EphemeralAck(Text.PICK_BELOW)
  /\ Len(cur.calls) = 1

\* C5 (as claimed): a verified button click that selects a lens on a message
\* with usable text is answered with an empty ack after an in-progress
\* notice, one run of run_lens and the result sent to the user.
C5_LensSelectionRunsSynchronously ==
  (LensSelection /\ has_context(cur.req.body.text)) =>
    /\ cur.resp = EmptyAck
    /\ Len(cur.runs) = 1
    /\ cur.runs[1] = LensRun(cur.req.body.value, cur.req.body.text)
    /\ Len(cur.calls) = 2
    /\ cur.calls[1].api = "chat_postEphemeral"
    /\ cur.calls[1].text = InProgressText(LENS_NAMES_get(cur.req.body.value))
    /\ cur.calls[2].api = "chat_postEphemeral"
    /\ cur.calls[2].user = PayloadUserId(cur.req.body)
    /\ cur.calls[2].blocks.kind = "section"

\* C6 (as claimed): a verified button click that selects a lens on a message
\* without usable text is answered with a push of the lens_modal view whose
\* private_metadata carries the lens, the channel and the user of the
\* click, and run_lens is not run.
C6_LensSelectionWithoutTextOpensLensModal ==
  (LensSelection /\ ~has_context(cur.req.body.text)) =>
    /\ cur.resp = Push(LensModal(cur.req.body.value, PayloadChannelId(cur.req.body),
                                 PayloadUserId(cur.req.body)))
    /\ cur.runs = << >>

\* C7: a verified lens_modal submission is answered with
\* {"response_action": "clear"}, and the view function reaches its return
\* with every thread it started still before run_lens and with nothing
\* sent; nothing then keeps it from returning.
C7_ClearWithoutWaiting ==
  /\ [][LensSubmissionStep =>
          /\ cur'.status = "handling"
          /\ cur'.resp = Clear
          /\ cur'.runs = << >>
          /\ \A i \in (Len(workers) + 1)..Len(workers') :
               /\ workers'[i].pc = "ready"
               /\ workers'[i].calls = << >>]_vars
  /\ [](cur.status = "handling" => ENABLED Return)

\* C7, its case: the response of a lens_modal submission has been returned
\* and the thread it started has not yet run
C7_Witness ==
  /\ cur.status = "done"
  /\ VerifiedSubmission(cur.req, "lens_modal")
  /\ cur.resp = Clear
  /\ \E i \in WorkersOfCur : workers[i].pc = "ready" /\ workers[i].calls = << >>

\* C8: a verified lens_modal submission (its private_metadata as Slack
\* returns it: what LensModal wrote, or absent) starts exactly one thread,
\* for the channel and user of its private_metadata; every thread started ends,
\* having made exactly one chat_postEphemeral call, to its channel and
\* user, whether the call returned or raised; a thread never makes a second
\* call, and a thread that has ended does nothing more and starts nothing.
C8_OneWorkerOneSend ==
  /\ [][LensSubmissionStep =>
          LET pm == cur'.req.body.private_metadata
              loaded == json_loads(IF pm = << >> THEN json_dumps(<< >>) ELSE pm)
          IN  /\ Len(workers') = Len(workers) + 1
              /\ cur'.spawned = 1
              /\ workers'[Len(workers')].rid = cur'.rid
              /\ workers'[Len(workers')].channel_id = dict_get(loaded.dict, "channel_id")
              /\ workers'[Len(workers')].user_id = dict_get(loaded.dict, "user_id")]_vars
  /\ [](\A i \in 1..Len(workers) :
          /\ Len(workers[i].calls) <= 1
          /\ workers[i].pc = "done" <=> Len(workers[i].calls) = 1
          /\ \A k \in 1..Len(workers[i].calls) :
               /\ workers[i].calls[k].api = "chat_postEphemeral"
               /\ workers[i].calls[k].channel = workers[i].channel_id
               /\ workers[i].calls[k].user = workers[i].user_id
               /\ workers[i].calls[k].blocks = SectionBlock(workers[i].md))
  /\ [][\A i \in 1..Len(workers) :
          workers[i].pc = "done" =>
            /\ workers'[i] = workers[i]
            /\ nreq' = nreq => Len(workers') = Len(workers)]_vars
  /\ \A i \in 1..MaxThreads :
       (i <= Len(workers)) ~> (i <= Len(workers) /\ workers[i].pc = "done")

\* C8, its case: the one send of the thread of a lens_modal submission
\* raised, and the thread has ended
C8_Witness ==
  /\ VerifiedSubmission(cur.req, "lens_modal")
  /\ Cardinality(WorkersOfCur) = 1
  /\ \E i \in WorkersOfCur :
       /\ workers[i].pc = "done"
       /\ Len(workers[i].calls) = 1
       /\ ~workers[i].calls[1].ok
       /\ workers[i].calls[1].channel = "C1"
       /\ workers[i].calls[1].user = "U1"

\* C9 (as claimed): a verified submission of the decide_modal view is
\* answered with {"response_action": "clear"} after the brief was sent as
\* an ephemeral message.
C9_DecideSubmissionSendsBrief ==
  (Handled /\ VerifiedSubmission(cur.req, "decide_modal")) =>
    /\ cur.resp = Clear
    /\ \E k \in 1..Len(cur.calls) : cur.calls[k].api = "chat_postEphemeral"

\* the lens ids, channel ids and user ids of the round trip
RoundTripLenses == LensIds \cup {"mystery", "", None}
RoundTripChannels == {"C1", "C2", "", None}
RoundTripUsers == {"U1", "U2", ""}

\* C10: for every lens id, channel id and user id, the private_metadata
\* written for the lens_modal view parses, and decodes to the same lens,
\* channel and user; and the thread of a submission that carries this
\* private_metadata is started with exactly these three values.
C10_PrivateContextRoundTrip ==
  \A l \in RoundTripLenses, c \in RoundTripChannels, u \in RoundTripUsers :
    LET pm == LensModal(l, c, u).private_metadata
        loaded == json_loads(pm)
    IN  /\ loaded.ok
        /\ DecodePrivateContext(loaded.dict) = [lens |-> l, channel_id |-> c, user_id |-> u]
        /\ (Handled /\ VerifiedSubmission(cur.req, "lens_modal")
              /\ cur.req.body.private_metadata = pm) =>
             /\ WorkersOfCur # {}
             /\ \A i \in WorkersOfCur :
                  /\ workers[i].lens = l
                  /\ workers[i].channel_id = c
                  /\ workers[i].user_id = u

\* C10, its case: the submission of the modal written for scaler, C1, U1
\* has started its thread
C10_Witness ==
  /\ VerifiedSubmission(cur.req, "lens_modal")
  /\ cur.req.body.private_metadata = LensModal("scaler", "C1", "U1").private_metadata
  /\ \E i \in WorkersOfCur :
       /\ workers[i].lens = "scaler"
       /\ workers[i].channel_id = "C1"
       /\ workers[i].user_id = "U1"

\* run_lens has been called on its own and has ended
RunLensCalled == call.fn = "run_lens" /\ call.done

\* C11 (as claimed): for every lens id, every text value a caller passes and
\* every backend condition (not configured, raises, returns), run_lens
\* returns a string and raises nothing.
C11_RunLensNeverRaises ==
  RunLensCalled => (~call.raised /\ IsStr(call.out))

\* the text run_lens formats: the checklist when the backend is not
\* configured, raised or returned no text, else the stripped completion
RawText ==
  IF oa /\ call.backend.kind = "reply" /\ IsStr(call.backend.content)
  THEN strip(call.backend.content)
  ELSE _fallback_lens_text(call.lens, call.text)

\* C12: whenever run_lens returns (backend not configured, raising or
\* returning), what it returns is _word_cap(_normalize_headers(raw),
\* MAX_LENS_WORDS) of the raw text of its path, and has at most
\* MAX_LENS_WORDS + 1 words; with the backend not configured it returns for
\* every lens id and every text, and the result is not empty.
C12_NormalizedThenCapped ==
  /\ (RunLensCalled /\ ~call.raised) =>
       /\ call.out = _word_cap(_normalize_headers(RawText), MAX_LENS_WORDS)
       /\ Len(split(call.out)) <= MAX_LENS_WORDS + 1
  /\ (RunLensCalled /\ ~oa) =>
       /\ ~call.raised
       /\ call.out # << >>

\* C12, its case: a completion of more than MAX_LENS_WORDS words came back
\* cut to MAX_LENS_WORDS words and the ellipsis
C12_Witness ==
  /\ RunLensCalled
  /\ oa
  /\ call.backend.content = T_LONG_REPLY
  /\ Len(split(call.out)) = MAX_LENS_WORDS + 1
  /\ split(call.out)[MAX_LENS_WORDS + 1] = <<"<ellipsis>">>

\* _word_cap has been called on its own and has ended
WordCapCalled == call.fn = "_word_cap" /\ call.done

\* C13: _word_cap(md, limit) returns md itself when md has at most limit
\* words; otherwise it returns the first limit words of md, joined by single
\* spaces, followed by one ellipsis: limit + 1 words, of which the first
\* limit are the first limit words of md, in order.
C13_WordCap ==
  WordCapCalled =>
    LET words == split(call.text)
        result == split(call.out)
        limit == call.limit
    IN  IF Len(words) <= limit
        THEN call.out = call.text
        ELSE /\ call.out = join(SubSeq(words, 1, limit)) \o <<" ", "<ellipsis>">>
             /\ Len(result) = limit + 1
             /\ SubSeq(result, 1, limit) = SubSeq(words, 1, limit)
             /\ result[limit + 1] = <<"<ellipsis>">>

\* C13, its case: a text of three words, with whitespace to spare, was cut
\* to two words and the ellipsis
C13_Witness ==
  /\ WordCapCalled
  /\ call.text = <<"a", "<nl>", "b", " ", "a">>
  /\ call.limit = 2
  /\ call.out = <<"a", " ", "b", " ", "<ellipsis>">>

\* _normalize_headers has been called on its own and has ended
NormalizeCalled == call.fn = "_normalize_headers" /\ call.done

\* the lines ls with every heading in its canonical form, the rest of each
\* line and the lines without heading as they are, in the same order
Relabelled(ls) ==
  [k \in 1..Len(ls) |->
     IF ls[k].section = 0 THEN ls[k]
     ELSE [ls[k] EXCEPT !.head = Tail(Canonical(sections[ls[k].section].label))]]

\* C14 (as claimed): _normalize_headers rewrites every heading of the four
\* sections (in any case, bold or not, with a colon or a dash) to
\* *Label* <emdash>, in place, and leaves every other character as it is:
\* the result is the input with its heading lines relabelled; the empty
\* text, a text without heading and a text already in canonical form come
\* back unchanged.
C14_HeadingsRelabelledOnly ==
  NormalizeCalled =>
    call.out = Render(Relabelled(call.lines), 1, Len(call.lines))

\* the views_open calls of the current request
ViewsOpenCalls == { k \in 1..Len(cur.calls) : cur.calls[k].api = "views_open" }

\* C15: a trigger_id is used only inside the view function that received
\* it.  A request makes at most one views_open call, with the trigger_id
\* of its own payload; the calls of a request are all made before its
\* response is returned; a thread is started with lens, text, channel and
\* user only, never with the trigger_id, and makes no views_open call.
C15_TriggerIdNotKept ==
  /\ [](Handled =>
          /\ Cardinality(ViewsOpenCalls) <= 1
          /\ \A k \in ViewsOpenCalls :
               /\ cur.calls[k].trigger_id # None
               /\ cur.calls[k].trigger_id = cur.req.body.trigger_id
          /\ \A k \in 1..Len(cur.calls) :
               k \notin ViewsOpenCalls => cur.calls[k].trigger_id = None)
  /\ [][nreq' = nreq => cur'.calls = cur.calls]_vars
  /\ [](\A i \in 1..Len(workers) :
          /\ DOMAIN workers[i] = {"rid", "authenticated", "pc", "lens", "text",
                                  "channel_id", "user_id", "md", "calls"}
          /\ (i \in WorkersOfCur /\ cur.req.body.trigger_id # None) =>
               cur.req.body.trigger_id \notin
                 {workers[i].lens, workers[i].channel_id, workers[i].user_id}
          /\ \A k \in 1..Len(workers[i].calls) :
               /\ workers[i].calls[k].api # "views_open"
               /\ workers[i].calls[k].trigger_id = None)

\* C15, its case: a verified /decide command has opened the decision modal
\* with the trigger_id of its form and has been answered
C15_Witness ==
  /\ cur.status = "done"
  /\ VerifiedCallback
  /\ cur.req.ep = "commands"
  /\ cur.req.body.command = Text.decide_cmd
  /\ Cardinality(ViewsOpenCalls) = 1
  /\ cur.calls[1].trigger_id = "T3"

\* the current request is a verified slash command cmd
VerifiedCommand(cmd) ==
  /\ VerifiedCallback
  /\ cur.req.ep = "commands"
  /\ cur.req.body.command = cmd

\* the current request made exactly one Slack call: the lens picker, as an
\* ephemeral message to the user and channel of the request
OnePickerPrompt ==
  /\ Len(cur.calls) = 1
  /\ cur.calls[1].api = "chat_postEphemeral"
  /\ cur.calls[1].user = cur.req.body.user
  /\ cur.calls[1].channel = cur.req.body.channel
  /\ cur.calls[1].text = Text.PICKER
  /\ cur.calls[1].blocks.kind = "lens_picker"

\* C16 (as claimed): a verified /lens command sends exactly one picker
\* prompt, opens no modal, returns no modal directive and is answered with
\* an empty ack, whether the send succeeded or failed.
C16_LensCommandEmptyAck ==
  VerifiedCommand(Text.lens_cmd) =>
    /\ OnePickerPrompt
    /\ cur.resp = EmptyAck

\* C16 (amended): a verified /lens command sends exactly one picker prompt,
\* opens no modal and returns no modal directive; it is answered 200 with
\* the ephemeral text "Pick a lens below", not with an empty body, whether
\* the send succeeded or failed; it starts no thread and runs no lens.
C16_LensCommandAckText ==
  VerifiedCommand(Text.lens_cmd) =>
    /\ OnePickerPrompt
    /\ cur.resp = EphemeralAck(Text.PICK_BELOW)
    /\ cur.resp.kind \notin {"push", "clear"}
    /\ cur.resp.view = NoView
    /\ cur.resp # EmptyAck
    /\ cur.runs = << >>
    /\ WorkersOfCur = {}

\* C16, its case: the picker send of a verified /lens command failed and
\* the command was answered with the ack text
C16_Witness ==
  /\ cur.status = "done"
  /\ VerifiedCommand(Text.lens_cmd)
  /\ ~cur.calls[1].ok
  /\ cur.resp = EphemeralAck(Text.PICK_BELOW)

\* C17 (as claimed): a verified interactivity request whose payload field
\* does not parse is handled as an unrecognized payload: it is answered
\* with an empty 200, one call of log_corpus is made, and no exception
\* leaves the view function (no 500).
C17_MalformedPayloadAcked ==
  (Handled /\ cur.req.ep = "interactivity" /\ cur.req.sig = "valid"
     /\ ~cur.req.body.valid_json) =>
    /\ cur.resp.status # 500
    /\ cur.resp = EmptyAck
    /\ Len(cur.logs) = 1

\* C18 (as claimed): the text of the clicked message is usable exactly when
\* it is not empty once stripped and is not, compared without case, the
\* prompt of the picker; a text that only contains the prompt is usable.
C18_UsableUnlessEqualToPrompt ==
  (call.fn = "has_context" /\ call.done) =>
    call.out = (/\ strip(call.text) # << >>
                /\ lower(call.text) # lower(Text.PICKER))

\* The current request is a verified callback of no recognized kind: a
\* command other than /lens and /decide; a payload that is no button click,
\* no modal submission and not the apply_lens shortcut; a button click that
\* is neither post_lens nor a lens selection; the submission of a modal
\* other than lens_modal and decide_modal; an event callback other than
\* message and app_mention.
Unrecognized ==
  /\ VerifiedCallback
  /\ LET b == cur.req.body
     IN  \/ /\ cur.req.ep = "commands"
            /\ b.command \notin {Text.lens_cmd, Text.decide_cmd}
         \/ /\ cur.req.ep = "interactivity"
            /\ \/ b.type \notin {"block_actions", "view_submission", "message_action"}
               \/ b.type = "message_action" /\ b.callback_id # "apply_lens_action"
               \/ /\ b.type = "block_actions"
                  /\ b.action_id # Text.A_post_lens
                  /\ ~IsLensSelection(b.action_id, b.value)
               \/ /\ b.type = "view_submission"
                  /\ b.view_callback_id \notin {"lens_modal", "decide_modal"}
         \/ /\ cur.req.ep = "events"
            /\ b.type = "event_callback"
            /\ b.event_type \notin {"message", "app_mention"}

\* C19 (as claimed): a verified callback of no recognized kind is answered
\* with an empty 200, makes no call on the Slack client, returns no push or
\* clear of a modal and starts no thread.
C19_UnrecognizedEmptyAck ==
  Unrecognized =>
    /\ cur.resp = EmptyAck
    /\ cur.calls = << >>
    /\ cur.spawned = 0
    /\ WorkersOfCur = {}

\* the private_metadata of the submission req, as the view function reads it
SubmittedContext(req) ==
  DecodePrivateContext(
    json_loads(IF req.body.private_metadata = << >> THEN json_dumps(<< >>)
               ELSE req.body.private_metadata).dict)

\* C20: threads of different submissions share nothing.  In every
\* interleaving of lens_modal submissions and of the steps of their threads:
\* a thread is started with the lens, channel and user of the
\* private_metadata of its own submission and with the stripped text of that
\* submission; these never change afterwards; a step changes at most one
\* thread; and the one message a thread sends goes to its own channel and
\* user, is labelled with the name of its own lens and carries run_lens of
\* its own lens and text.
C20_WorkersIndependent ==
  /\ [][LensSubmissionStep =>
          LET own == SubmittedContext(cur'.req)
              w == workers'[Len(workers')]
          IN  /\ Len(workers') = Len(workers) + 1
              /\ w.rid = cur'.rid
              /\ w.lens = own.lens
              /\ w.channel_id = own.channel_id
              /\ w.user_id = own.user_id
              /\ w.text = strip(cur'.req.body.ctx)]_vars
  /\ [][/\ Len(workers') >= Len(workers)
        /\ \A i \in 1..Len(workers) :
             /\ workers'[i].rid = workers[i].rid
             /\ workers'[i].lens = workers[i].lens
             /\ workers'[i].text = workers[i].text
             /\ workers'[i].channel_id = workers[i].channel_id
             /\ workers'[i].user_id = workers[i].user_id
        /\ Cardinality({ i \in 1..Len(workers) : workers'[i] # workers[i] }) <= 1]_vars
  /\ [](\A i \in 1..Len(workers) :
          /\ Len(workers[i].calls) <= 1
          /\ \A k \in 1..Len(workers[i].calls) :
               LET sent == workers[i].calls[k]
               IN  /\ sent.channel = workers[i].channel_id
                   /\ sent.user = workers[i].user_id
                   /\ sent.text = LENS_NAMES_get(workers[i].lens)
                   /\ \E backend \in BackendOutcomes :
                        sent.blocks =
                          SectionBlock(run_lens(workers[i].lens, workers[i].text,
                                                oa, backend).md))

\* C20, its case: two submissions of different users; the thread of the
\* second has sent its result to C2 and U2 while the thread of the first,
\* started earlier, has not yet sent
C20_Witness ==
  /\ Len(workers) = 2
  /\ workers[1].user_id = "U1"
  /\ workers[2].user_id = "U2"
  /\ workers[1].pc = "ran"
  /\ workers[2].pc = "done"
  /\ workers[2].calls[1].channel = "C2"
  /\ workers[2].calls[1].user = "U2"
  /\ workers[2].calls[1].text = Text.N_operator

\* the current request is a verified button click (payload type
\* block_actions), whatever its action id, value and message text
VerifiedButtonClick ==
  /\ VerifiedCallback
  /\ cur.req.ep = "interactivity"
  /\ cur.req.body.type = "block_actions"

\* C21: every verified button click is answered with a push of the fixed
\* test modal (callback id noop, no private_metadata); it makes no call on
\* the Slack client, no call of log_corpus and no run of run_lens, starts
\* no thread and leaves no row in the corpus.
C21_ButtonClickPushesTestModal ==
  VerifiedButtonClick =>
    /\ cur.resp = Push(TestModal)
    /\ cur.resp.view.callback_id = "noop"
    /\ cur.calls = << >>
    /\ cur.logs = << >>
    /\ cur.runs = << >>
    /\ cur.spawned = 0
    /\ WorkersOfCur = {}
    /\ \A k \in 1..Len(corpus) : corpus[k].rid # cur.rid

\* C21 happens: a lens selected on a message with usable text, which would
\* take the synchronous branch, has been answered with the test modal
C21_Witness ==
  /\ VerifiedButtonClick
  /\ cur.status = "done"
  /\ cur.req.body.action_id = Text.A_lens_cfo
  /\ has_context(cur.req.body.text)
  /\ cur.resp = Push(TestModal)

\* the current request has sent, or tried to send, the in-progress notice
\* of the thread w: one chat_postEphemeral to w's channel and user with the
\* label of w's lens
NoticeAttempted(w) ==
  /\ cur.rid = w.rid
  /\ Len(cur.calls) = 1
  /\ cur.calls[1] = Call("chat_postEphemeral", w.channel_id, w.user_id,
                         InProgressText(LENS_NAMES_get(w.lens)),
                         NoBlocks, None, NoView, cur.calls[1].ok)

\* the view function of a verified lens_modal submission has gone through
\* its try block and its attempt to send the notice raised
NoticeFailed ==
  /\ cur.status \in {"handling", "done"}
  /\ VerifiedSubmission(cur.req, "lens_modal")
  /\ cur.calls # << >>
  /\ ~cur.calls[1].ok

\* C22: in every interleaving of the statements of the lens_modal branch
\* with the threads, a thread is started only in a state in which the
\* notice of its submission has already been attempted, so every thread of
\* the current submission, whatever it has run or sent, comes after that
\* attempt; and when the attempt raised, the view function still reaches
\* its return with its one thread started.
C22_NoticeBeforeWorker ==
  /\ [][\A i \in 1..Len(workers') : i > Len(workers) => NoticeAttempted(workers'[i])]_vars
  /\ [](\A i \in WorkersOfCur : NoticeAttempted(workers[i]))
  /\ [](NoticeFailed => Cardinality(WorkersOfCur) = 1)

\* C22 happens: the notice of a submission failed, its thread was started
\* and has run the lens and sent the result before the view function
\* returned
C22_Witness ==
  /\ NoticeFailed
  /\ cur.status = "handling"
  /\ \E i \in WorkersOfCur :
       /\ workers[i].pc = "done"
       /\ Len(workers[i].calls) = 1
       /\ workers[i].calls[1].ok

=============================================================================
